---- MODULE Spec2Model ----
(***************************************************************************)
(* The parcel-delivery REST backend of src/index.js as a state machine.    *)
(*                                                                         *)
(* State: the four document collections, the requests in flight and the  *)
(* request answered by the latest step.  A request is a record holding    *)
(* its inputs, the handler's position (pc), its locals and, once sent,    *)
(* its response status.                                                    *)
(*                                                                         *)
(* Granularity: a handler is an async function; every `await` of a         *)
(* document-store call is a point where other requests run.  One action    *)
(* of the model is one document-store operation executed atomically,       *)
(* together with the synchronous code of the handler that follows it up    *)
(* to the next store call (or to the response).  The arrival of a request  *)
(* and the synchronous code before its first store call are folded into    *)
(* the action of that first store call.                                    *)
(*                                                                         *)
(* Every store or gateway call may reject (ok = FALSE).  Inside a          *)
(* try/catch the handler answers 500; outside one the rejection is         *)
(* unhandled and the request is never answered (pc = "hung").              *)
(***************************************************************************)
EXTENDS Integers, Sequences, FiniteSets

VARIABLES usersCollection, parcelCollection, paymentsCollection,
          ridersCollection, inflight, last

vars == <<usersCollection, parcelCollection, paymentsCollection,
          ridersCollection, inflight, last>>

(***************************************************************************)
(* Bounds of the model, per specification: the documents ever inserted   *)
(* into a collection and the requests in flight at a time.                 *)
(***************************************************************************)
PayMaxParcels == 1
PayMaxInflight == 1
AssignMaxParcels == 1
AssignMaxRiders == 1
AssignMaxInflight == 2
RiderMaxUsers == 1
RiderMaxRiders == 1
RiderMaxInflight == 1
UserMaxUsers == 2
UserMaxInflight == 2
MaxDocs == 1
RespMaxDocs == 1
RespMaxInflight == 1
MaxInflight == 1

(***************************************************************************)
(* Input domains.                                                          *)
(***************************************************************************)
Undefined == "undefined"
Emails == {"r@example.com", "s@example.com"}

\* The Authorization header of a request: absent, "Bearer" with no token,
\* a token the identity provider rejects, or a token it verifies for an email.
NoHeader == "no-header"
NoToken == "no-token"
BadToken == "bad-token"
Callers == {NoHeader, NoToken, BadToken} \cup Emails

\* A request's id parameter: the _id of the k-th document ever inserted
\* (k > 0), a well-formed ObjectId string that is the _id of no document,
\* or a string `new ObjectId(id)` throws on.
NoSuchId == 0
MalformedId == -1
\* The id left out of the request body.
MissingId == -2
IdInputs(coll) == (1 .. Len(coll)) \cup {NoSuchId, MalformedId}

\* A deleted document: its _id is never used again.
Deleted == [live |-> FALSE]

(***************************************************************************)
(* The document store's operations, as the handlers use them.              *)
(***************************************************************************)
Min(S) == CHOOSE i \in S : \A j \in S : i <= j

\* findOne / updateOne / deleteOne with filter { _id: new ObjectId(id) }:
\* the position of the matching document, 0 when none matches.
ById(coll, id) ==
    IF id \in 1 .. Len(coll) /\ coll[id].live THEN id ELSE 0

\* findOne / updateOne with filter { email }: the first matching document in
\* natural (insertion) order, 0 when none matches.
ByEmail(coll, email) ==
    LET S == {k \in 1 .. Len(coll) : coll[k].live /\ coll[k].email = email}
    IN IF S = {} THEN 0 ELSE Min(S)

\* updateOne's modifiedCount for a matched document: a $set that leaves the
\* document as it is modifies nothing.
ModifiedCountSameAsMatched(old, new) == 1

ModifiedCount(old, new) == IF old = new THEN 0 ELSE 1

(***************************************************************************)
(* Requests.                                                               *)
(*   op      the route                                                     *)
(*   caller  the Authorization header                                      *)
(*   a, b    the route's inputs                                            *)
(*   pc      "done" (answered), "hung" (never answered) or the store call  *)
(*           the handler awaits                                            *)
(*   res     the HTTP status sent, 0 while none is                         *)
(*   m       the modifiedCount / deletedCount the handler got              *)
(*   m2      the count of the handler's second write                       *)
(*   e       a value the handler read (a rider's email, a user's role)     *)
(*   g       what the handler's first write found, or whether the caller   *)
(*           would have passed the gates (not a program variable;          *)
(*           recorded for the properties)                                  *)
(***************************************************************************)
Req(op, caller, a, b) ==
    [op |-> op, caller |-> caller, a |-> a, b |-> b, pc |-> "start",
     res |-> 0, m |-> 0, m2 |-> 0, e |-> Undefined, g |-> Undefined]

\* res.status(s).send(...)
Send(r, s) == [r EXCEPT !.pc = "done", !.res = s]

\* An exception outside any try/catch of an async handler or middleware:
\* nothing is ever sent.
Hang(r) == [r EXCEPT !.pc = "hung"]

Await(r, pc) == [r EXCEPT !.pc = pc]

\* No request was answered by the latest step.
NoResp == Req("none", NoHeader, NoSuchId, Undefined)

Ended(r) == r.pc \in {"done", "hung"}

\* What is kept of a request once it has ended.  An error response (and a
\* request never answered) carries a fixed message: of a request that ends
\* so without having modified a document, the route and the status are
\* kept; any other request is kept whole.
Reply(r) ==
    IF (r.pc = "hung" \/ r.res \in {400, 401, 403, 500}) /\ r.m = 0
    THEN [Req(r.op, NoHeader, NoSuchId, Undefined) EXCEPT
            !.pc = r.pc, !.res = r.res]
    ELSE r

Remove(q, i) == [k \in 1 .. Len(q) - 1 |-> IF k < i THEN q[k] ELSE q[k + 1]]

\* A request arrives and runs to its first await or to its response.
Arrive(r) ==
    IF Ended(r)
    THEN /\ last' = Reply(r)
         /\ UNCHANGED inflight
    ELSE /\ inflight' = Append(inflight, r)
         /\ last' = NoResp

\* Request i resumes and runs to its next await or to its response.
Resume(i, r) ==
    IF Ended(r)
    THEN /\ inflight' = Remove(inflight, i)
         /\ last' = Reply(r)
    ELSE /\ inflight' = [inflight EXCEPT ![i] = r]
         /\ last' = NoResp

At(i, op, pc) == inflight[i].op = op /\ inflight[i].pc = pc

Init ==
    /\ usersCollection = <<>>
    /\ parcelCollection = <<>>
    /\ paymentsCollection = <<>>
    /\ ridersCollection = <<>>
    /\ inflight = <<>>
    /\ last = NoResp

(***************************************************************************)
(* Parcels.                                                                *)
(***************************************************************************)
\* The parcel payloads handed to POST /parcels (stored as they are).
ParcelPayloads ==
    [live : {TRUE}, payment_status : {"unpaid", "paid"},
     delivery_status : {"pending"}, assigned_rider : {Undefined}]

\* POST /parcels
createParcel ==
    \E payload \in ParcelPayloads, ok \in BOOLEAN :
        LET r == Req("POST /parcels", NoHeader, payload.payment_status, Undefined)
        IN /\ IF ok
              THEN /\ parcelCollection' = Append(parcelCollection, payload)
                   /\ Arrive([Send(r, 201) EXCEPT
                                !.m = Len(parcelCollection) + 1])
              ELSE /\ Arrive(Send(r, 500))
                   /\ UNCHANGED parcelCollection
           /\ UNCHANGED <<usersCollection, paymentsCollection, ridersCollection>>

\* DELETE /parcels/:id
deleteParcel ==
    \E id \in IdInputs(parcelCollection), ok \in BOOLEAN :
        LET r == Req("DELETE /parcels/:id", NoHeader, id, Undefined)
            t == ById(parcelCollection, id)
        IN /\ IF id = MalformedId \/ ~ok
              THEN /\ Arrive(Send(r, 500))
                   /\ UNCHANGED parcelCollection
              ELSE /\ parcelCollection' =
                        IF t = 0 THEN parcelCollection
                        ELSE [parcelCollection EXCEPT ![t] = Deleted]
                   /\ Arrive([Send(r, 200) EXCEPT !.m = IF t = 0 THEN 0 ELSE 1])
           /\ UNCHANGED <<usersCollection, paymentsCollection, ridersCollection>>

(***************************************************************************)
(* Payments.                                                               *)
(***************************************************************************)
\* What updateOne({_id}, {$set: {payment_status: "paid"}}) finds.
PaymentStatusSeen(t) ==
    IF t = 0 THEN "missing" ELSE parcelCollection[t].payment_status

TransactionIds == {"txn_1"}

\* The gate of POST /payments: updateResult.modifiedCount === 0.
GateNeverRejects(m) == FALSE

GateRejects(m) == m = 0

\* POST /payments, step 1: the parcel update and the modifiedCount gate.
recordPaymentUpdateOf(parcelId, transactionId, ok) ==
    LET r == Req("POST /payments", NoHeader, parcelId, transactionId)
        t == ById(parcelCollection, parcelId)
        m == IF t = 0 THEN 0
             ELSE ModifiedCount(parcelCollection[t].payment_status, "paid")
    IN /\ IF parcelId = MalformedId \/ ~ok
          THEN /\ Arrive(Send(r, 500))
               /\ UNCHANGED parcelCollection
          ELSE /\ parcelCollection' =
                    IF t = 0 THEN parcelCollection
                    ELSE [parcelCollection EXCEPT ![t].payment_status = "paid"]
               /\ Arrive([(IF GateRejects(m) THEN Send(r, 404)
                           ELSE Await(r, "insert"))
                            EXCEPT !.m = m, !.g = PaymentStatusSeen(t)])
       /\ UNCHANGED <<usersCollection, paymentsCollection, ridersCollection>>

recordPaymentUpdate ==
    \E parcelId \in IdInputs(parcelCollection),
       transactionId \in TransactionIds, ok \in BOOLEAN :
        recordPaymentUpdateOf(parcelId, transactionId, ok)

\* POST /payments, step 2: the Payment insert.
recordPaymentInsert(i) ==
    /\ At(i, "POST /payments", "insert")
    /\ \E ok \in BOOLEAN :
        IF ok
        THEN /\ paymentsCollection' =
                  Append(paymentsCollection,
                         [parcelId |-> inflight[i].a, transactionId |-> inflight[i].b])
             /\ Resume(i, [Send(inflight[i], 201) EXCEPT
                              !.m2 = Len(paymentsCollection) + 1])
        ELSE /\ Resume(i, Send(inflight[i], 500))
             /\ UNCHANGED paymentsCollection
    /\ UNCHANGED <<usersCollection, parcelCollection, ridersCollection>>

(***************************************************************************)
(* Riders.                                                                 *)
(***************************************************************************)
\* The application payloads handed to POST /riders (stored as they are).
RiderPayloads ==
    [live : {TRUE}, email : Emails, status : {"pending", "active"},
     work_status : {"available"}, current_parcel : {NoSuchId}]

\* POST /riders (no try/catch)
applyAsRider ==
    \E payload \in RiderPayloads, ok \in BOOLEAN :
        LET r == Req("POST /riders", NoHeader, payload.email, payload.status)
        IN /\ IF ok
              THEN /\ ridersCollection' = Append(ridersCollection, payload)
                   /\ Arrive([Send(r, 200) EXCEPT
                                !.m = Len(ridersCollection) + 1])
              ELSE /\ Arrive(Hang(r))
                   /\ UNCHANGED ridersCollection
           /\ UNCHANGED <<usersCollection, parcelCollection, paymentsCollection>>

\* The status values a client may send.
StatusInputs == {"pending", "active", "rejected"}

\* PATCH /riders/status/:id (no gate, any status; updated_at: new Date()
\* makes every matched update a modification)
setRiderStatus ==
    \E caller \in {NoHeader}, id \in IdInputs(ridersCollection),
       status \in StatusInputs, ok \in BOOLEAN :
        LET r == Req("PATCH /riders/status/:id", caller, id, status)
            t == ById(ridersCollection, id)
        IN /\ IF id = MalformedId \/ ~ok
              THEN /\ Arrive(Send(r, 500))
                   /\ UNCHANGED ridersCollection
              ELSE IF t = 0
              THEN /\ Arrive(Send(r, 404))
                   /\ UNCHANGED ridersCollection
              ELSE /\ ridersCollection' =
                        [ridersCollection EXCEPT ![t].status = status]
                   /\ Arrive([Send(r, 200) EXCEPT
                                !.m = 1, !.g = ridersCollection[t].status])
           /\ UNCHANGED <<usersCollection, parcelCollection, paymentsCollection>>

\* DELETE /riders/:id
rejectRider ==
    \E id \in IdInputs(ridersCollection), ok \in BOOLEAN :
        LET r == Req("DELETE /riders/:id", NoHeader, id, Undefined)
            t == ById(ridersCollection, id)
        IN /\ IF id = MalformedId \/ ~ok
              THEN /\ Arrive(Send(r, 500))
                   /\ UNCHANGED ridersCollection
              ELSE IF t = 0
              THEN /\ Arrive(Send(r, 404))
                   /\ UNCHANGED ridersCollection
              ELSE /\ ridersCollection' =
                        [ridersCollection EXCEPT ![t] = Deleted]
                   /\ Arrive([Send(r, 200) EXCEPT !.m = 1])
           /\ UNCHANGED <<usersCollection, parcelCollection, paymentsCollection>>

(***************************************************************************)
(* Rider assignment: two writes, each awaited.                             *)
(***************************************************************************)
\* The parcel document after the $set of POST /parcels/assign.
AssignedParcel(p, riderEmail) ==
    [p EXCEPT !.delivery_status = "in_transit", !.assigned_rider = riderEmail]

\* The rider document after the $set of POST /parcels/assign.
AssignedRiderKeepsParcel(d, parcelId) ==
    [d EXCEPT !.work_status = "in_delivery"]

AssignedRider(d, parcelId) ==
    [d EXCEPT !.work_status = "in_delivery", !.current_parcel = parcelId]

\* The requests in flight, those whose parcel write to parcelId is now
\* written over marked so (g is not a program variable).
Overwritten(parcelId) ==
    [k \in 1 .. Len(inflight) |->
        IF inflight[k].op = "POST /parcels/assign" /\ inflight[k].a = parcelId
        THEN [inflight[k] EXCEPT !.g = "overwritten"]
        ELSE inflight[k]]

\* POST /parcels/assign, step 1: the parcel write
\* (assigned_at: assignedAt || new Date() makes a matched update a
\* modification).
assignRiderParcel ==
    \E parcelId \in IdInputs(parcelCollection) \cup {MissingId},
       riderEmail \in Emails \cup {Undefined}, ok \in BOOLEAN :
        LET r == Req("POST /parcels/assign", NoHeader, parcelId, riderEmail)
            t == ById(parcelCollection, parcelId)
        IN /\ IF parcelId = MissingId \/ riderEmail = Undefined
              THEN /\ Arrive(Send(r, 400))
                   /\ UNCHANGED parcelCollection
              ELSE IF parcelId = MalformedId \/ ~ok
              THEN /\ Arrive(Send(r, 500))
                   /\ UNCHANGED parcelCollection
              ELSE /\ parcelCollection' =
                        IF t = 0 THEN parcelCollection
                        ELSE [parcelCollection EXCEPT
                                ![t] = AssignedParcel(@, riderEmail)]
                   /\ inflight' =
                        Append(IF t = 0 THEN inflight ELSE Overwritten(parcelId),
                               [Await(r, "rider") EXCEPT
                                  !.m = IF t = 0 THEN 0 ELSE 1])
                   /\ last' = NoResp
           /\ UNCHANGED <<usersCollection, paymentsCollection, ridersCollection>>

\* POST /parcels/assign, step 2: the rider write and the response.
assignRiderRider(i) ==
    /\ At(i, "POST /parcels/assign", "rider")
    /\ \E ok \in BOOLEAN :
        LET r == inflight[i]
            t == ByEmail(ridersCollection, r.b)
            d == AssignedRider(ridersCollection[t], r.a)
        IN IF ~ok
           THEN /\ Resume(i, Send(r, 500))
                /\ UNCHANGED ridersCollection
           ELSE IF t = 0
           THEN /\ Resume(i, Send(r, 200))
                /\ UNCHANGED ridersCollection
           ELSE /\ ridersCollection' = [ridersCollection EXCEPT ![t] = d]
                /\ Resume(i, [Send(r, 200) EXCEPT
                                 !.m2 = ModifiedCount(ridersCollection[t], d)])
    /\ UNCHANGED <<usersCollection, parcelCollection, paymentsCollection>>

(***************************************************************************)
(* Access control.                                                         *)
(***************************************************************************)
\* verifyFBToken: the status it answers with, 0 when it calls next() with
\* req.decoded.email = caller.
verifyFBToken(caller) ==
    CASE caller = NoHeader -> 401
      [] caller = NoToken -> 401
      [] caller = BadToken -> 403
      [] OTHER -> 0

\* adminVerify's test on the user found for req.decoded.email.
IsAdmin(email) ==
    LET u == ByEmail(usersCollection, email)
    IN u # 0 /\ usersCollection[u].role = "admin"

\* Whether a request with this header would pass both gates (used by the
\* properties only).
PassesGates(caller) == verifyFBToken(caller) = 0 /\ IsAdmin(caller)

(***************************************************************************)
(* Users.                                                                  *)
(*   role_by  the operation whose write last set the role: "insert",       *)
(*            "setUserRole" or "cascade" (not a field of the program's     *)
(*            documents; recorded for the properties)                      *)
(***************************************************************************)
RoleInputs == {Undefined, "admin"}

\* GET /users/:email/role: the status and the role sent when findOne succeeds.
getUserRoleResult(email) ==
    LET u == ByEmail(usersCollection, email)
    IN IF u = 0 THEN [status |-> 404, role |-> Undefined]
       ELSE [status |-> 200,
             role |-> IF usersCollection[u].role = Undefined THEN "user"
                      ELSE usersCollection[u].role]

getUserRole ==
    \E email \in Emails, ok \in BOOLEAN :
        LET r == Req("GET /users/:email/role", NoHeader, email, Undefined)
            x == getUserRoleResult(email)
        IN /\ Arrive(IF ok THEN [Send(r, x.status) EXCEPT !.e = x.role]
                     ELSE Send(r, 500))
           /\ UNCHANGED <<usersCollection, parcelCollection,
                          paymentsCollection, ridersCollection>>

\* POST /users, step 1: the existence check (no try/catch).
upsertUserFind ==
    \E email \in Emails, role \in RoleInputs, ok \in BOOLEAN :
        LET r == Req("POST /users", NoHeader, email, role)
        IN /\ Arrive(IF ~ok THEN Hang(r)
                     ELSE IF ByEmail(usersCollection, email) # 0
                     THEN [Send(r, 200) EXCEPT !.g = "User already exists"]
                     ELSE Await(r, "insert"))
           /\ UNCHANGED <<usersCollection, parcelCollection,
                          paymentsCollection, ridersCollection>>

\* POST /users, step 2: the insert.
upsertUserInsert(i) ==
    /\ At(i, "POST /users", "insert")
    /\ \E ok \in BOOLEAN :
        IF ok
        THEN /\ usersCollection' =
                  Append(usersCollection,
                         [live |-> TRUE, email |-> inflight[i].a,
                          role |-> inflight[i].b, role_by |-> "insert"])
             /\ Resume(i, [Send(inflight[i], 200) EXCEPT
                              !.m = Len(usersCollection) + 1])
        ELSE /\ Resume(i, Hang(inflight[i]))
             /\ UNCHANGED usersCollection
    /\ UNCHANGED <<parcelCollection, paymentsCollection, ridersCollection>>

\* PATCH /users/:id/role (no gate)
setUserRole ==
    \E caller \in Callers, id \in IdInputs(usersCollection),
       role \in {"admin", "user", "rider"}, ok \in BOOLEAN :
        LET r == Req("PATCH /users/:id/role", caller, id, role)
            t == ById(usersCollection, id)
        IN /\ IF role \notin {"admin", "user"}
              THEN /\ Arrive(Send(r, 400))
                   /\ UNCHANGED usersCollection
              ELSE IF id = MalformedId \/ ~ok
              THEN /\ Arrive(Send(r, 500))
                   /\ UNCHANGED usersCollection
              ELSE IF t = 0
              THEN /\ Arrive(Send(r, 200))
                   /\ UNCHANGED usersCollection
              ELSE /\ usersCollection' =
                        [usersCollection EXCEPT
                           ![t].role = role,
                           ![t].role_by = "setUserRole"]
                   /\ Arrive([Send(r, 200) EXCEPT
                                !.m = ModifiedCount(usersCollection[t].role, role),
                                !.g = PassesGates(caller)])
           /\ UNCHANGED <<parcelCollection, paymentsCollection, ridersCollection>>

(***************************************************************************)
(* Rider approval: verifyFBToken, adminVerify, then up to three store      *)
(* calls.                                                                  *)
(***************************************************************************)
\* The routes behind verifyFBToken and adminVerify.
AdminRoutes ==
    {"PATCH /riders/:id/status", "GET /riders/pending", "GET /riders/active"}

\* PATCH /riders/:id/status arrives: verifyFBToken.  The gates read the
\* header only; the request's id and status are drawn where the handler
\* first reads them.
approveOrRejectRiderVerify ==
    \E caller \in Callers :
        LET r == Req("PATCH /riders/:id/status", caller, NoSuchId, Undefined)
            s == verifyFBToken(caller)
        IN /\ Arrive(IF s # 0 THEN Send(r, s) ELSE Await(r, "admin"))
           /\ UNCHANGED <<usersCollection, parcelCollection,
                          paymentsCollection, ridersCollection>>

\* GET /riders/pending or GET /riders/active arrives: verifyFBToken.
listRidersVerify ==
    \E op \in {"GET /riders/pending", "GET /riders/active"},
       caller \in Callers :
        LET r == Req(op, caller, NoSuchId, Undefined)
            s == verifyFBToken(caller)
        IN /\ Arrive(IF s # 0 THEN Send(r, s) ELSE Await(r, "admin"))
           /\ UNCHANGED <<usersCollection, parcelCollection,
                          paymentsCollection, ridersCollection>>

\* adminVerify's findOne (no try/catch), then the handler's synchronous start.
adminVerify(i) ==
    /\ inflight[i].op \in AdminRoutes
    /\ inflight[i].pc = "admin"
    /\ \E ok \in BOOLEAN :
        IF ~ok THEN Resume(i, Hang(inflight[i]))
        ELSE IF ~IsAdmin(inflight[i].caller) THEN Resume(i, Send(inflight[i], 403))
        ELSE IF inflight[i].op # "PATCH /riders/:id/status"
        THEN Resume(i, Await(inflight[i], "find"))
        ELSE \E id \in IdInputs(ridersCollection), status \in StatusInputs :
            LET r == [inflight[i] EXCEPT !.a = id, !.b = status]
            IN Resume(i,
                 IF status \notin {"active", "rejected"} THEN Send(r, 400)
                 ELSE IF id = MalformedId THEN Send(r, 500)
                 ELSE Await(r, "update"))
    /\ UNCHANGED <<usersCollection, parcelCollection,
                   paymentsCollection, ridersCollection>>

\* PATCH /riders/:id/status: the status write.
approveOrRejectRiderUpdate(i) ==
    /\ At(i, "PATCH /riders/:id/status", "update")
    /\ \E ok \in BOOLEAN :
        LET r == inflight[i]
            t == ById(ridersCollection, r.a)
        IN IF ~ok
           THEN /\ Resume(i, Send(r, 500))
                /\ UNCHANGED ridersCollection
           ELSE /\ ridersCollection' =
                     IF t = 0 THEN ridersCollection
                     ELSE [ridersCollection EXCEPT ![t].status = r.b]
                /\ Resume(i,
                     [(IF r.b = "active" THEN Await(r, "find") ELSE Send(r, 200))
                        EXCEPT !.m = IF t = 0 THEN 0
                                     ELSE ModifiedCount(ridersCollection[t].status, r.b),
                               !.g = IF t = 0 THEN <<"missing", Undefined, FALSE>>
                                     ELSE <<ridersCollection[t].status,
                                            ridersCollection[t].email,
                                            ByEmail(usersCollection,
                                                    ridersCollection[t].email) # 0>>])
    /\ UNCHANGED <<usersCollection, parcelCollection, paymentsCollection>>

\* PATCH /riders/:id/status with "active": the rider is read again.
approveOrRejectRiderFind(i) ==
    /\ At(i, "PATCH /riders/:id/status", "find")
    /\ \E ok \in BOOLEAN :
        LET r == inflight[i]
            t == ById(ridersCollection, r.a)
        IN Resume(i,
             IF ~ok THEN Send(r, 500)
             ELSE IF t = 0 THEN Send(r, 200)
             ELSE [Await(r, "cascade") EXCEPT !.e = ridersCollection[t].email])
    /\ UNCHANGED <<usersCollection, parcelCollection,
                   paymentsCollection, ridersCollection>>

\* The role the approval cascade writes.
CascadeRoleUser == "user"

CascadeRole == "rider"

\* PATCH /riders/:id/status with "active": the User.role cascade.
approveOrRejectRiderCascade(i) ==
    /\ At(i, "PATCH /riders/:id/status", "cascade")
    /\ \E ok \in BOOLEAN :
        LET r == inflight[i]
            u == ByEmail(usersCollection, r.e)
        IN IF ~ok
           THEN /\ Resume(i, Send(r, 500))
                /\ UNCHANGED usersCollection
           ELSE /\ usersCollection' =
                     IF u = 0 THEN usersCollection
                     ELSE [usersCollection EXCEPT ![u].role = CascadeRole,
                                                  ![u].role_by = "cascade"]
                /\ Resume(i, [Send(r, 200) EXCEPT !.m2 = IF u = 0 THEN 0 ELSE 1])
    /\ UNCHANGED <<parcelCollection, paymentsCollection, ridersCollection>>

\* GET /riders/pending (try/catch) and GET /riders/active (none): the find.
listRidersFind(i) ==
    /\ inflight[i].op \in {"GET /riders/pending", "GET /riders/active"}
    /\ inflight[i].pc = "find"
    /\ \E ok \in BOOLEAN :
        Resume(i, IF ok THEN Send(inflight[i], 200)
                   ELSE IF inflight[i].op = "GET /riders/pending"
                   THEN Send(inflight[i], 500)
                   ELSE Hang(inflight[i]))
    /\ UNCHANGED <<usersCollection, parcelCollection,
                   paymentsCollection, ridersCollection>>

(***************************************************************************)
(* The remaining routes: they read, or write nothing the others read.      *)
(***************************************************************************)
\* GET /users/search
searchUsers ==
    \E email \in Emails \cup {Undefined}, ok \in BOOLEAN :
        LET r == Req("GET /users/search", NoHeader, email, Undefined)
        IN /\ Arrive(IF email = Undefined THEN Send(r, 400)
                     ELSE IF ok THEN Send(r, 200)
                     ELSE Send(r, 500))
           /\ UNCHANGED <<usersCollection, parcelCollection,
                          paymentsCollection, ridersCollection>>

\* GET /parcels/:id
getParcel ==
    \E id \in IdInputs(parcelCollection), ok \in BOOLEAN :
        LET r == Req("GET /parcels/:id", NoHeader, id, Undefined)
        IN /\ Arrive(IF id = MalformedId \/ ~ok THEN Send(r, 500)
                     ELSE IF ById(parcelCollection, id) = 0 THEN Send(r, 404)
                     ELSE Send(r, 200))
           /\ UNCHANGED <<usersCollection, parcelCollection,
                          paymentsCollection, ridersCollection>>

\* GET /riders/available
listAvailableRidersByDistrict ==
    \E district \in {"Dhaka", Undefined}, ok \in BOOLEAN :
        LET r == Req("GET /riders/available", NoHeader, district, Undefined)
        IN /\ Arrive(IF district = Undefined THEN Send(r, 400)
                     ELSE IF ok THEN Send(r, 200)
                     ELSE Send(r, 500))
           /\ UNCHANGED <<usersCollection, parcelCollection,
                          paymentsCollection, ridersCollection>>

\* POST /tracking: trackingCollection is declared nowhere, so the handler
\* throws a ReferenceError outside any try/catch on every request.
postTracking ==
    \E parcel_id \in IdInputs(parcelCollection) :
        LET r == Req("POST /tracking", NoHeader, parcel_id, Undefined)
        IN /\ Arrive(Hang(r))
           /\ UNCHANGED <<usersCollection, parcelCollection,
                          paymentsCollection, ridersCollection>>

\* POST /create-payment-intent
createPaymentIntent ==
    \E ok \in BOOLEAN :
        LET r == Req("POST /create-payment-intent", NoHeader, NoSuchId, Undefined)
        IN /\ Arrive(IF ok THEN Send(r, 200) ELSE Send(r, 500))
           /\ UNCHANGED <<usersCollection, parcelCollection,
                          paymentsCollection, ridersCollection>>

\* GET /parcels and GET /payments arrive: verifyFBToken, and for
\* GET /payments the comparison of the claim's email with the query's.
listVerify ==
    \E op \in {"GET /parcels", "GET /payments"}, caller \in Callers,
       email \in Emails :
        LET r == Req(op, caller, email, Undefined)
            s == verifyFBToken(caller)
        IN /\ Arrive(IF s # 0 THEN Send(r, s)
                     ELSE IF op = "GET /payments" /\ caller # email
                     THEN Send(r, 403)
                     ELSE Await(r, "find"))
           /\ UNCHANGED <<usersCollection, parcelCollection,
                          paymentsCollection, ridersCollection>>

\* GET /parcels and GET /payments: the find.
listFind(i) ==
    /\ inflight[i].op \in {"GET /parcels", "GET /payments"}
    /\ inflight[i].pc = "find"
    /\ \E ok \in BOOLEAN :
        Resume(i, IF ok THEN Send(inflight[i], 200) ELSE Send(inflight[i], 500))
    /\ UNCHANGED <<usersCollection, parcelCollection,
                   paymentsCollection, ridersCollection>>

(***************************************************************************)
(* Specifications.                                                         *)
(***************************************************************************)
Ids == 1 .. Len(inflight)

\* The bounds of a specification leave out the steps that would pass them:
\* on the requests in flight, and on the documents ever inserted into a
\* collection (for the users, counting the inserts in flight).
Flying(n) == Len(inflight') <= n

Users(n) ==
    Len(usersCollection') + Cardinality({k \in 1 .. Len(inflight') :
                                           inflight'[k].op = "POST /users"}) <= n

Parcels(n) == Len(parcelCollection') <= n

Riders(n) == Len(ridersCollection') <= n

\* Payment recording over the parcel lifecycle.
PayNext ==
    \/ createParcel /\ Parcels(PayMaxParcels)
    \/ deleteParcel
    \/ recordPaymentUpdate /\ Flying(PayMaxInflight)
    \/ assignRiderParcel /\ Flying(PayMaxInflight)
    \/ \E i \in Ids : recordPaymentInsert(i)
    \/ \E i \in Ids : assignRiderRider(i)

PaySpec == Init /\ [][PayNext]_vars

\* Rider assignment.
AssignNext ==
    \/ createParcel /\ Parcels(AssignMaxParcels)
    \/ deleteParcel
    \/ applyAsRider /\ Riders(AssignMaxRiders)
    \/ rejectRider
    \/ assignRiderParcel /\ Flying(AssignMaxInflight)
    \/ \E i \in Ids : assignRiderRider(i)

AssignSpec == Init /\ [][AssignNext]_vars

\* The rider workflow and the roles of users.
RiderNext ==
    \/ upsertUserFind /\ Users(RiderMaxUsers) /\ Flying(RiderMaxInflight)
    \/ setUserRole
    \/ getUserRole
    \/ applyAsRider /\ Riders(RiderMaxRiders)
    \/ setRiderStatus
    \/ rejectRider
    \/ approveOrRejectRiderVerify /\ Flying(RiderMaxInflight)
    \/ \E i \in Ids : upsertUserInsert(i)
    \/ \E i \in Ids : adminVerify(i)
    \/ \E i \in Ids : approveOrRejectRiderUpdate(i)
    \/ \E i \in Ids : approveOrRejectRiderFind(i)
    \/ \E i \in Ids : approveOrRejectRiderCascade(i)

RiderSpec == Init /\ [][RiderNext]_vars

\* The user directory.
UserNext ==
    \/ upsertUserFind /\ Users(UserMaxUsers) /\ Flying(UserMaxInflight)
    \/ setUserRole
    \/ getUserRole
    \/ searchUsers
    \/ \E i \in Ids : upsertUserInsert(i)

UserSpec == Init /\ [][UserNext]_vars

\* The gates, the reads and the handlers without a try/catch.
ResponseNext ==
    \/ upsertUserFind /\ Users(RespMaxDocs) /\ Flying(RespMaxInflight)
    \/ createParcel /\ Parcels(RespMaxDocs)
    \/ applyAsRider /\ Riders(RespMaxDocs)
    \/ searchUsers
    \/ getParcel
    \/ listAvailableRidersByDistrict
    \/ postTracking
    \/ createPaymentIntent
    \/ listVerify /\ Flying(RespMaxInflight)
    \/ listRidersVerify /\ Flying(RespMaxInflight)
    \/ \E i \in Ids : upsertUserInsert(i)
    \/ \E i \in Ids : listFind(i)
    \/ \E i \in Ids : adminVerify(i)
    \/ \E i \in Ids : listRidersFind(i)

ResponseSpec == Init /\ [][ResponseNext]_vars

\* Every route.
Next ==
    \/ searchUsers
    \/ getUserRole
    \/ upsertUserFind /\ Users(MaxDocs) /\ Flying(MaxInflight)
    \/ setUserRole
    \/ listVerify /\ Flying(MaxInflight)
    \/ getParcel
    \/ createParcel /\ Parcels(MaxDocs)
    \/ deleteParcel
    \/ applyAsRider /\ Riders(MaxDocs)
    \/ listRidersVerify /\ Flying(MaxInflight)
    \/ setRiderStatus
    \/ approveOrRejectRiderVerify /\ Flying(MaxInflight)
    \/ listAvailableRidersByDistrict
    \/ assignRiderParcel /\ Flying(MaxInflight)
    \/ rejectRider
    \/ postTracking
    \/ recordPaymentUpdate /\ Flying(MaxInflight)
    \/ createPaymentIntent
    \/ \E i \in Ids : upsertUserInsert(i)
    \/ \E i \in Ids : listFind(i)
    \/ \E i \in Ids : adminVerify(i)
    \/ \E i \in Ids : listRidersFind(i)
    \/ \E i \in Ids : approveOrRejectRiderUpdate(i)
    \/ \E i \in Ids : approveOrRejectRiderFind(i)
    \/ \E i \in Ids : approveOrRejectRiderCascade(i)
    \/ \E i \in Ids : assignRiderRider(i)
    \/ \E i \in Ids : recordPaymentInsert(i)

Spec == Init /\ [][Next]_vars

(***************************************************************************)
(* Properties.  `last` is the request answered by the latest step, so a    *)
(* state predicate on it speaks of the moment of that response.            *)
(***************************************************************************)
PaymentsOf(parcelId) ==
    {k \in 1 .. Len(paymentsCollection) :
        paymentsCollection[k].parcelId = parcelId}

\* The POST /payments requests past the gate for parcelId, their insert
\* still to come.
Inserting(parcelId) ==
    {i \in Ids : /\ At(i, "POST /payments", "insert")
                 /\ inflight[i].a = parcelId}

IsPaid(parcelId) ==
    /\ ById(parcelCollection, parcelId) # 0
    /\ parcelCollection[parcelId].payment_status = "paid"

\* C1: a parcel is "paid" only with a Payment document for it.  Stated at
\* the moment recordPayment answers: the parcel its update turned "paid"
\* has a Payment document with its parcelId.
C1_PaidParcelHasPayment ==
    (/\ last.op = "POST /payments"
     /\ last.pc = "done"
     /\ last.m = 1
     /\ IsPaid(last.a))
        => PaymentsOf(last.a) # {}

\* C2: a recordPayment whose parcel update runs on a parcel that is already
\* "paid", or on a parcelId that resolves to no parcel, leaves the Payment
\* documents as they are, answers 404 at once and never comes to the insert.
C2_AlreadyPaidCreatesNoPayment ==
    /\ [][\A parcelId \in IdInputs(parcelCollection) \ {MalformedId},
             transactionId \in TransactionIds :
            (/\ recordPaymentUpdateOf(parcelId, transactionId, TRUE)
             /\ PaymentStatusSeen(ById(parcelCollection, parcelId))
                  \in {"paid", "missing"})
                => /\ paymentsCollection' = paymentsCollection
                   /\ inflight' = inflight
                   /\ last'.op = "POST /payments"
                   /\ last'.res = 404]_vars
    /\ [](\A i \in Ids :
            At(i, "POST /payments", "insert") => inflight[i].g = "unpaid")

\* C2 happens: a recordPayment on a parcel that already has its Payment
\* document was answered 404.
C2_Witness ==
    /\ last.op = "POST /payments"
    /\ last.res = 404
    /\ last.g = "paid"
    /\ Cardinality(PaymentsOf(last.a)) = 1

C4_AssignedAtResponse ==
    (/\ last.op = "POST /parcels/assign"
     /\ last.res = 200
     /\ ById(parcelCollection, last.a) # 0
     /\ ByEmail(ridersCollection, last.b) # 0)
        => LET p == parcelCollection[last.a]
               d == ridersCollection[ByEmail(ridersCollection, last.b)]
           IN /\ p.delivery_status = "in_transit"
              /\ p.assigned_rider = last.b
              /\ d.work_status = "in_delivery"
              /\ d.current_parcel = last.a

\* C4 as amended: the same, except that assigned_rider is riderEmail only
\* when no other assignRider wrote the parcel after this call's parcel write.
C4_AssignedUnlessOverwritten ==
    (/\ last.op = "POST /parcels/assign"
     /\ last.res = 200
     /\ ById(parcelCollection, last.a) # 0
     /\ ByEmail(ridersCollection, last.b) # 0)
        => LET p == parcelCollection[last.a]
               d == ridersCollection[ByEmail(ridersCollection, last.b)]
           IN /\ p.delivery_status = "in_transit"
              /\ p.assigned_rider = last.b \/ last.g = "overwritten"
              /\ p.assigned_rider \in Emails
              /\ d.work_status = "in_delivery"
              /\ d.current_parcel = last.a

\* C4 happens: assignRider has answered success for a stored parcel and a
\* stored rider, no other assignment in between.
C4_Witness ==
    /\ last.op = "POST /parcels/assign"
    /\ last.res = 200
    /\ last.g # "overwritten"
    /\ ById(parcelCollection, last.a) # 0
    /\ ByEmail(ridersCollection, last.b) # 0
    /\ parcelCollection[last.a].assigned_rider = last.b

\* C10: no rider that is not "active" is "in_delivery" (assignRider moves
\* active, available riders only).
C10_OnlyActiveRidersInDelivery ==
    \A k \in 1 .. Len(ridersCollection) :
        (ridersCollection[k].live /\ ridersCollection[k].work_status = "in_delivery")
            => ridersCollection[k].status = "active"

\* C3: a rider becomes "active" or "rejected" only through the approval
\* endpoint and only from "pending": PATCH /riders/status/:id never sets
\* either, and an approval that modifies a rider finds it "pending".
C3_StatusOnlyByApproval ==
    /\ (last.op = "PATCH /riders/status/:id" /\ last.res = 200)
          => last.b \notin {"active", "rejected"}
    /\ (last.op = "PATCH /riders/:id/status" /\ last.res = 200 /\ last.m = 1)
          => last.g[1] = "pending"

\* C6: a stored user's role is changed only by a request that passed
\* credential verification and the admin check.
C6_RoleChangedByAdminOnly ==
    (last.op = "PATCH /users/:id/role" /\ last.res = 200 /\ last.m = 1)
        => last.g = TRUE

\* C7: at most one User document per email.
C7_OneUserPerEmail ==
    \A email \in Emails :
        Cardinality({k \in 1 .. Len(usersCollection) :
                        usersCollection[k].email = email}) <= 1

\* C8: every request is answered (no handler ends without a response).
C8_EveryRequestAnswered == last.pc # "hung"

Approved ==
    /\ last.op = "PATCH /riders/:id/status"
    /\ last.res = 200
    /\ last.b = "active"

\* C5 as stated: once approveOrRejectRider(id, "active") has answered success
\* for a rider document with email e while a User with email e was stored,
\* getUserRole(e) returns "rider" unless a setUserRole has changed that user.
C5_ApprovedUserIsRider ==
    (Approved /\ last.g[1] # "missing" /\ last.g[3])
        => \/ getUserRoleResult(last.g[2]).role = "rider"
           \/ usersCollection[ByEmail(usersCollection, last.g[2])].role_by
                = "setUserRole"

\* C5 as amended: the same when the handler, reading the rider again after
\* the status write, still found it (last.e is the email it read); the role
\* then stays "rider" until a setUserRole writes it; and an approval with
\* "rejected", or for an id that resolves to no rider, never comes to the
\* cascade.
C5_CascadedUserIsRider ==
    /\ (Approved /\ last.e # Undefined /\ ByEmail(usersCollection, last.e) # 0)
          => /\ getUserRoleResult(last.e).role = "rider"
             /\ usersCollection[ByEmail(usersCollection, last.e)].role_by = "cascade"
    /\ \A k \in 1 .. Len(usersCollection) :
          usersCollection[k].role_by = "cascade"
              => usersCollection[k].role = "rider"
    /\ (/\ last.op = "GET /users/:email/role"
        /\ last.res = 200
        /\ usersCollection[ByEmail(usersCollection, last.a)].role_by = "cascade")
          => last.e = "rider"
    /\ \A i \in Ids :
          At(i, "PATCH /riders/:id/status", "cascade")
              => /\ inflight[i].b = "active"
                 /\ inflight[i].g[1] # "missing"
                 /\ inflight[i].e \in Emails
    /\ (/\ last.op = "PATCH /riders/:id/status"
        /\ last.res = 200
        /\ (last.b = "rejected" \/ last.g[1] = "missing"))
          => last.m2 = 0

\* C5 happens: after an approval's cascade, getUserRole has returned "rider".
C5_Witness ==
    /\ last.op = "GET /users/:email/role"
    /\ last.res = 200
    /\ last.e = "rider"
    /\ usersCollection[ByEmail(usersCollection, last.a)].role_by = "cascade"

====
